---- MODULE Spec2Model ----
(***************************************************************************)
(* ARTICo3 development kit: the configuration model of                     *)
(* tools/_pypack/artico3/runtime/project.py (Project.load and the parsing  *)
(* and checking it drives, Project.get_template).                          *)
(*                                                                         *)
(* Python values are modelled as follows.                                  *)
(*   - an optional string (None or a str) is a sequence of length <= 1:    *)
(*     <<>> is None, <<"vhdl">> is the string "vhdl";                      *)
(*   - the raw text of a numeric option of the .cfg file is a record       *)
(*     [k, v]: k = "absent" (has_option is false), k = "int" (text that    *)
(*     int() converts to v), k = "text" (text on which int() raises        *)
(*     ValueError);                                                        *)
(*   - a path is the sequence of its components;                           *)
(*   - a Slot holds a reference to its Kernel object: the 1-based index of *)
(*     that kernel in the project's kerns list.                            *)
(***************************************************************************)
EXTENDS Integers, Sequences, FiniteSets, TLC

VARIABLES
    Slot_id,    \* the class attribute Slot._id, shared by the whole process
    prj,        \* prj[p]: the fields of Project object p
    ret,        \* ret[p]: how the last call of p.load ended ("none" before any)
    src,        \* src[p]: the configuration file given to the last p.load
    fs,         \* the template directories that exist on the filesystem
    tmpl,       \* the last call of get_template and what it returned
    disk,       \* the content of the template file preproc works on
    ctx,        \* the dictionary handed to preproc (a Python dict, mutable)
    io,         \* the calls of preproc so far and what the last one did
    tree,       \* the template tree generate works on
    gen,        \* the call of generate: its walk and the callbacks made
    pc          \* pc[p]: where the call of p.load in progress stands (0: none)

vars == <<Slot_id, prj, ret, src, fs, tmpl, disk, ctx, io, tree, gen, pc>>

Projects == {"p1", "p2"}

(***************************************************************************)
(* Bounds of the checked inputs.                                           *)
(***************************************************************************)
MaxReplicas == 2
MaxCapacity == 3

(***************************************************************************)
(* Program constants.                                                      *)
(***************************************************************************)
DefaultSlots == 3
DefaultReplicas == 1
DefaultMemBytes == 16384
DefaultMemBanks == 2
DefaultRegRW == 4
DefaultRegRO == 4
MaxMemBytes == 65536
DummyMemBytes == 4096
DummyMemBanks == 2
DummyRegs == 2

None == <<>>
Some(s) == <<s>>

Absent == [k |-> "absent", v |-> 0]
Num(n) == [k |-> "int", v |-> n]
Text == [k |-> "text", v |-> 0]

\* cfg.has_option(section, key) on a numeric key
has_option(o) == o.k # "absent"

\* int(cfg.get(section, key)) raises ValueError on text that is no integer
int_raises(o) == o.k = "text"

\* the default taken also for an option that is present with the value 0
int_or_falsy(o, default) == IF has_option(o) /\ o.v # 0 THEN o.v ELSE default

\* int(cfg.get(section, key)) when has_option, else the default of the code
int_or(o, default) == IF has_option(o) THEN o.v ELSE default

\* math.ceil(a / b) for b # 0, on the exact quotient
ceil_div(a, b) ==
    IF b > 0
    THEN IF a >= 0 THEN (a + b - 1) \div b ELSE -((-a) \div b)
    ELSE IF a <= 0 THEN ((-a) + (-b) - 1) \div (-b) ELSE -(a \div (-b))

\* int(math.ceil((membytes / membanks) / 4) * 4 * membanks)
ceil_floor_words(membytes, membanks) ==
    ceil_div(membytes, 4 * membanks) * 4 * membanks

\* the repair rounding to whole 32-bit words only, whatever the bank count
aligned_membytes_words(membytes, membanks) ==
    ceil_div(membytes, 4) * 4

\* the repair with the rounding of a floor instead of a ceil
aligned_membytes_floor(membytes, membanks) ==
    IF membanks > 0 /\ membytes >= 0
    THEN (membytes \div (4 * membanks)) * 4 * membanks
    ELSE ceil_floor_words(membytes, membanks)

\* lines 254-256: the memory size is raised to a whole number of 32-bit words
\* in every bank
aligned_membytes(membytes, membanks) ==
    IF membytes # ceil_floor_words(membytes, membanks)
    THEN ceil_floor_words(membytes, membanks)
    ELSE membytes

(***************************************************************************)
(* A section of the configuration file.  Its header is prefix, or          *)
(* prefix@name when at is TRUE.                                            *)
(***************************************************************************)
\* _.startswith("A3Kernel") on the section header
is_kernel_section(s) == s.prefix \in {"A3Kernel", "A3Kernel2"}

\* re.search(r"^.*@(?P<name>.+)", kernel): None unless an "@" is followed by
\* at least one character
match_name(s) == IF s.at /\ s.name # "" THEN Some(s.name) ELSE None

\* the exceptions one pass of the loop body of _parse_kernels raises before it
\* builds the Kernel: match.group on None, int() on text, division by zero
section_raises(s) ==
    \/ match_name(s) = None
    \/ int_raises(s.Replicas)
    \/ int_raises(s.MemBytes)
    \/ int_raises(s.MemBanks)
    \/ int_or(s.MemBanks, DefaultMemBanks) = 0
    \/ int_raises(s.RegRW)
    \/ int_raises(s.RegRO)

\* lines 245-249
section_membanks(s) == int_or(s.MemBanks, DefaultMemBanks)

\* lines 234-237: hwsrc is the option's text, or None
section_hwsrc(s) == s.HwSource

\* lines 270-274
section_rstpol(s) == IF s.RstPol # None THEN s.RstPol[1] ELSE "low"

\* Kernel(name, hwsrc, membytes, membanks, regrw, regro, rstpol) of lines 226-277
section_kernel(s) ==
    [name     |-> match_name(s)[1],
     hwsrc    |-> section_hwsrc(s),
     membytes |-> aligned_membytes(int_or(s.MemBytes, DefaultMemBytes),
                                   section_membanks(s)),
     membanks |-> section_membanks(s),
     regrw    |-> int_or(s.RegRW, DefaultRegRW),
     regro    |-> int_or(s.RegRO, DefaultRegRO),
     rstpol   |-> section_rstpol(s)]

\* lines 228-232
section_replicas(s) == int_or(s.Replicas, DefaultReplicas)

\* range(n) of Python: n iterations when n > 0, none otherwise
range_len(n) == IF n > 0 THEN n ELSE 0

\* Slot(): the id is the current Slot._id (lines 53-56); kern is the index in
\* kerns of the Kernel object appended to slot.kerns
new_slots(first_id, n, kern) ==
    [i \in 1..n |-> [id |-> first_id + (i - 1), kerns |-> <<kern>>]]

(***************************************************************************)
(* The state a load works on: the lists of the Project, the class counter, *)
(* and exc = TRUE once an exception has left the parser.                   *)
(***************************************************************************)
parse_kernel(s, st) ==
    IF ~is_kernel_section(s) THEN st
    ELSE IF section_raises(s) THEN [st EXCEPT !.exc = TRUE]
    ELSE [st EXCEPT
            !.kerns = Append(st.kerns, section_kernel(s)),
            !.slots = st.slots \o new_slots(st.id, range_len(section_replicas(s)),
                                            Len(st.kerns) + 1),
            !.id    = st.id + range_len(section_replicas(s))]

RECURSIVE parse_kernels(_, _)
\* _parse_kernels: the loop over the kernel sections, in file order
parse_kernels(sections, st) ==
    IF sections = <<>> \/ st.exc THEN st
    ELSE parse_kernels(Tail(sections), parse_kernel(Head(sections), st))

\* Kernel("dummy", "vhdl", 4096, 2, 2, 2, "low") of line 293
dummy_kernel ==
    [name     |-> "dummy",
     hwsrc    |-> Some("vhdl"),
     membytes |-> DummyMemBytes,
     membanks |-> DummyMemBanks,
     regrw    |-> DummyRegs,
     regro    |-> DummyRegs,
     rstpol   |-> "low"]

\* a padding that stops one slot short of the capacity
pad_slots_one_short(st, capacity) ==
    IF st.id < capacity
    THEN [st EXCEPT
            !.kerns = Append(st.kerns, dummy_kernel),
            !.slots = st.slots \o new_slots(st.id, capacity - st.id - 1,
                                            Len(st.kerns) + 1),
            !.id    = capacity - 1]
    ELSE st

\* lines 292-299: the slots left free are bound to one dummy kernel.  The
\* number of new slots is fixed by range(Slot._id, self.shuffler.slots) on
\* entry; each Slot() takes the class counter as its id
pad_slots(st, capacity) ==
    IF st.id < capacity
    THEN [st EXCEPT
            !.kerns = Append(st.kerns, dummy_kernel),
            !.slots = st.slots \o new_slots(st.id, capacity - st.id,
                                            Len(st.kerns) + 1),
            !.id    = capacity]
    ELSE st

\* the checks of one kernel without the one on the memory size
kernel_check_no_membytes(k) ==
    IF k.hwsrc = None THEN "exit_hwsrc"
    ELSE IF k.rstpol \notin {"high", "low"} THEN "exit_rstpol"
    ELSE "ok"

\* the checks of one kernel without the one on the reset polarity
kernel_check_no_rstpol(k) ==
    IF k.hwsrc = None THEN "exit_hwsrc"
    ELSE IF k.membytes > MaxMemBytes THEN "exit_membytes"
    ELSE "ok"

\* lines 302-310, for one kernel: the first check that fails, or "ok"
kernel_check(k) ==
    IF k.hwsrc = None THEN "exit_hwsrc"
    ELSE IF k.membytes > MaxMemBytes THEN "exit_membytes"
    ELSE IF k.rstpol \notin {"high", "low"} THEN "exit_rstpol"
    ELSE "ok"

\* lines 301-310: the loop stops at the first kernel that fails a check
kernels_check(kerns) ==
    IF \A i \in 1..Len(kerns) : kernel_check(kerns[i]) = "ok"
    THEN "ok"
    ELSE LET bad == {i \in 1..Len(kerns) : kernel_check(kerns[i]) # "ok"}
             first == CHOOSE i \in bad : \A j \in bad : i <= j
         IN  kernel_check(kerns[first])

\* the comparison of line 289 off by one
too_many_slots_ge(id, capacity) == id >= capacity

\* line 289: more slots configured than the Shuffler has
too_many_slots(id, capacity) == id > capacity

\* _check_project: the parser state it leaves and how it ends: "ok", or the
\* error logged before sys.exit(1)
check_project(st, capacity) ==
    IF too_many_slots(st.id, capacity)
    THEN [st |-> st, ret |-> "exit_slots"]
    ELSE LET padded == pad_slots(st, capacity)
         IN  [st |-> padded, ret |-> kernels_check(padded.kerns)]

\* shutil2.dirname of a path
dirname(path) == IF path = <<>> THEN <<>> ELSE SubSeq(path, 1, Len(path) - 1)

\* a load that goes on from the counter the last load left
first_slot_id_kept(id) == id

\* the first value of the class counter in a load (line 150)
first_slot_id(id) == 0

\* line 167, with chk what _check_project left
load_checked(P2, chk) ==
    [prj |-> [P2 EXCEPT !.kerns = chk.st.kerns, !.slots = chk.st.slots],
     id  |-> chk.st.id,
     ret |-> chk.ret]

\* lines 166-167, with st what _parse_kernels left
load_parsed(P2, st) ==
    IF st.exc
    THEN [prj |-> [P2 EXCEPT !.kerns = st.kerns, !.slots = st.slots],
          id  |-> st.id,
          ret |-> "raise"]
    ELSE load_checked(P2, check_project(st, P2.shuffler_slots))

\* Project.load(filepath), with P the fields of the Project and id the class
\* counter on entry: the fields and the counter it leaves, and how it ends:
\*   "ok"        _check_project returned
\*   "notfound"  cfg.read read nothing: error logged, load returns
\*   "exit_..."  sys.exit(1) in _check_project
\*   "raise"     an exception left load: configparser on a malformed file or
\*               a missing General option, ValueError of int(),
\*               AttributeError of match.group, ZeroDivisionError
load(P, f, id) ==
    LET P0 == [P EXCEPT !.kerns = <<>>, !.slots = <<>>,
                        !.file = f.path, !.dir = dirname(f.path)]
        id0 == first_slot_id(id)
    IN  IF ~f.found THEN [prj |-> P0, id |-> id0, ret |-> "notfound"]
        ELSE IF ~f.wellformed \/ f.general = "nosection"
        THEN [prj |-> P0, id |-> id0, ret |-> "raise"]
        ELSE IF f.general = "partial" \/ int_raises(f.Slots)
        THEN [prj |-> [P0 EXCEPT !.name = f.name], id |-> id0, ret |-> "raise"]
        ELSE load_parsed(
                [P0 EXCEPT !.name = f.name,
                           !.shuffler_slots = int_or(f.Slots, DefaultSlots)],
                parse_kernels(f.sections,
                    [kerns |-> <<>>, slots |-> <<>>, id |-> id0, exc |-> FALSE]))

(***************************************************************************)
(* Configuration files.                                                    *)
(***************************************************************************)
Section(prefix, at, name, Replicas, HwSource, MemBytes, MemBanks, RegRW, RegRO, RstPol) ==
    [prefix |-> prefix, at |-> at, name |-> name, Replicas |-> Replicas,
     HwSource |-> HwSource, MemBytes |-> MemBytes, MemBanks |-> MemBanks,
     RegRW |-> RegRW, RegRO |-> RegRO, RstPol |-> RstPol]

\* [A3Kernel@name] with HwSource = vhdl and the given Replicas, all else absent
Plain(name, Replicas) ==
    Section("A3Kernel", TRUE, name, Replicas, Some("vhdl"), Absent, Absent,
            Absent, Absent, None)

File(path, found, wellformed, general, name, Slots, sections) ==
    [path |-> path, found |-> found, wellformed |-> wellformed,
     general |-> general, name |-> name, Slots |-> Slots, sections |-> sections]

NoFile == File(<<>>, FALSE, FALSE, "nosection", "", Absent, <<>>)

Capacities == {Absent} \cup {Num(n) : n \in 1..MaxCapacity}
ReplicaCounts == {Absent} \cup {Num(n) : n \in 0..MaxReplicas}

\* well-formed files that differ in the capacity and in the replicas declared
SlotFiles ==
    {File(<<"prjA", "a.cfg">>, TRUE, TRUE, "ok", "A", c, <<Plain("a", r)>> \o more) :
        c \in Capacities, r \in ReplicaCounts,
        more \in {<<>>, <<Plain("b", Absent)>>}}

\* one section with one defect each
DefectSections ==
    {Section("A3Kernel", TRUE, "b", Absent, None, Absent, Absent, Absent, Absent, None),
     Section("A3Kernel", TRUE, "b", Absent, Some("hls"), Num(70000), Absent, Absent, Absent, None),
     Section("A3Kernel", TRUE, "b", Absent, Some("hls"), Absent, Absent, Absent, Absent, Some("hi")),
     Section("A3Kernel", TRUE, "b", Absent, Some("hls"), Absent, Num(0), Absent, Absent, None),
     Section("A3Kernel", FALSE, "", Absent, Some("hls"), Absent, Absent, Absent, Absent, None),
     Section("A3Kernel", TRUE, "b", Text, Some("hls"), Absent, Absent, Absent, Absent, None),
     Section("Other", FALSE, "", Absent, None, Absent, Absent, Absent, Absent, None)}

\* files that cannot be read, are malformed, or hold a defective section
\* after a sound one
DefectFiles ==
    {File(<<"prjB", "b.cfg">>, FALSE, FALSE, "nosection", "", Absent, <<>>),
     File(<<"prjB", "b.cfg">>, TRUE, FALSE, "nosection", "", Absent, <<>>),
     File(<<"prjB", "b.cfg">>, TRUE, TRUE, "nosection", "", Absent, <<>>),
     File(<<"prjB", "b.cfg">>, TRUE, TRUE, "partial", "B", Absent, <<>>),
     File(<<"prjB", "b.cfg">>, TRUE, TRUE, "ok", "B", Text, <<>>)}
    \cup
    {File(<<"prjB", "b.cfg">>, TRUE, TRUE, "ok", "B", Absent, <<Plain("a", Absent), d>>) :
        d \in DefectSections}

Files == SlotFiles \cup DefectFiles

(***************************************************************************)
(* The process: Project objects are constructed, then loaded any number of *)
(* times, one call after another.                                          *)
(***************************************************************************)
\* Project.__init__ (lines 111-127), with the repository it was given
new_project(repo) ==
    [kerns |-> <<>>, slots |-> <<>>, shuffler_slots |-> 0,
     name |-> "", file |-> <<>>, dir |-> <<>>, repo |-> repo]

NoCall == [called |-> FALSE, p |-> "p1", name |-> "", result |-> <<>>]

\* no call of preproc yet: runs counts the calls, before is the content of the
\* file when the last call started, rewrites how often the file had been
\* written by then, out the text the last call computed
NoRun ==
    [runs |-> 0, mode |-> "", force |-> FALSE, ret |-> "none",
     wrote |-> FALSE, printed |-> FALSE, before |-> <<>>, rewrites |-> 0,
     out |-> <<>>]

\* generate is not running: pass tells the walk generate is in, files and
\* subs the files and directories of the directory at hand that still get
\* their callback, dirs the directories still to walk into, log the callbacks
\* made so far, start the tree generate was called on, prev the tree before
\* the last callback
Idle ==
    [pass |-> "idle", mode |-> "", link |-> FALSE, files |-> {}, subs |-> {},
     dirs |-> {}, log |-> <<>>, start |-> <<>>, prev |-> <<>>]

NoGenerate ==
    /\ tree = <<>>
    /\ gen = Idle

\* no template file is being expanded
NoPreproc ==
    /\ disk = <<>>
    /\ ctx = <<>>
    /\ io = NoRun
    /\ NoGenerate

Init ==
    /\ Slot_id = 0
    /\ prj = [p \in Projects |-> new_project(<<"repo">>)]
    /\ ret = [p \in Projects |-> "none"]
    /\ src = [p \in Projects |-> NoFile]
    /\ pc = [p \in Projects |-> 0]
    /\ fs = {}
    /\ tmpl = NoCall
    /\ NoPreproc

\* p.load(f.path) while the file at that path holds f
Load(p, f) ==
    \E r \in {load(prj[p], f, Slot_id)} :
        /\ prj' = [prj EXCEPT ![p] = r.prj]
        /\ Slot_id' = r.id
        /\ ret' = [ret EXCEPT ![p] = r.ret]
        /\ src' = [src EXCEPT ![p] = f]
        /\ UNCHANGED <<fs, tmpl, disk, ctx, io, tree, gen, pc>>

Next == \E p \in Projects, f \in Files : Load(p, f)

Spec == Init /\ [][Next]_vars

(***************************************************************************)
(* One load of one kernel section taken from a wide range of options, in a *)
(* fresh process.                                                          *)
(***************************************************************************)
MemBytesOptions ==
    {Absent, Num(-5), Num(0), Num(16000), Num(65535), Num(65536), Num(70000)}
MemBanksOptions == {Absent, Num(-1), Num(0), Num(1), Num(3)}
HwSourceOptions == {None, Some(""), Some("vhdl")}
RstPolOptions == {None, Some("low"), Some("high"), Some("hi")}

KernelSections ==
    {Section("A3Kernel", TRUE, "a", r, hw, mb, bk, rw, ro, rp) :
        r \in {Absent, Num(MaxReplicas)}, hw \in HwSourceOptions,
        mb \in MemBytesOptions, bk \in MemBanksOptions,
        rw \in {Absent, Num(8)}, ro \in {Absent, Num(0)}, rp \in RstPolOptions}

KernelFiles ==
    {File(<<"prjA", "a.cfg">>, TRUE, TRUE, "ok", "A", c, <<s>> \o more) :
        c \in {Absent, Num(1)}, s \in KernelSections,
        more \in {<<>>, <<Plain("b", Absent)>>}}

\* files whose kernel sections differ in their header and give one name,
\* and a file that names a kernel as the padding kernel is named
NameFiles ==
    {File(<<"prjA", "a.cfg">>, TRUE, TRUE, "ok", "A", Absent,
          <<Plain("a", Absent),
            Section("A3Kernel2", TRUE, "a", Absent, Some("hls"), Absent, Absent,
                    Absent, Absent, None)>>),
     File(<<"prjA", "a.cfg">>, TRUE, TRUE, "ok", "A", Absent,
          <<Plain("dummy", Absent)>>)}

\* the first load of the process
LoadFirst ==
    /\ \A p \in Projects : ret[p] = "none"
    /\ \E f \in KernelFiles \cup NameFiles : Load("p1", f)

NextParse == LoadFirst

SpecParse == Init /\ [][NextParse]_vars

(***************************************************************************)
(* Loads that run at the same time (one thread for each Project, each     *)
(* loading once): a load advances by one kernel section at a time, and the *)
(* steps of two loads interleave.  Slot._id is an attribute of the class,  *)
(* the same for both.                                                      *)
(***************************************************************************)
\* lines 150-167 up to the call of _parse_kernels: what load leaves in the
\* Project and in the class counter, and "parsing" when it goes on
load_begin(P, f, id) ==
    LET P0 == [P EXCEPT !.kerns = <<>>, !.slots = <<>>,
                        !.file = f.path, !.dir = dirname(f.path)]
        id0 == first_slot_id(id)
    IN  IF ~f.found THEN [prj |-> P0, id |-> id0, ret |-> "notfound"]
        ELSE IF ~f.wellformed \/ f.general = "nosection"
        THEN [prj |-> P0, id |-> id0, ret |-> "raise"]
        ELSE IF f.general = "partial" \/ int_raises(f.Slots)
        THEN [prj |-> [P0 EXCEPT !.name = f.name], id |-> id0, ret |-> "raise"]
        ELSE [prj |-> [P0 EXCEPT !.name = f.name,
                                 !.shuffler_slots = int_or(f.Slots, DefaultSlots)],
              id |-> id0, ret |-> "parsing"]

\* the lists of Project p and the class counter as the parser sees them
parser_state(p) ==
    [kerns |-> prj[p].kerns, slots |-> prj[p].slots, id |-> Slot_id, exc |-> FALSE]

\* p.load(f.path) starts
BeginLoad(p, f) ==
    /\ pc[p] = 0
    /\ \E r \in {load_begin(prj[p], f, Slot_id)} :
        /\ prj' = [prj EXCEPT ![p] = r.prj]
        /\ Slot_id' = r.id
        /\ ret' = [ret EXCEPT ![p] = r.ret]
        /\ src' = [src EXCEPT ![p] = f]
        /\ pc' = [pc EXCEPT ![p] = IF r.ret = "parsing" THEN 1 ELSE 0]
    /\ UNCHANGED <<fs, tmpl, disk, ctx, io, tree, gen>>

\* one pass of the loop of _parse_kernels in the load of p
ParseSection(p) ==
    /\ pc[p] \in 1..Len(src[p].sections)
    /\ \E st \in {parse_kernel(src[p].sections[pc[p]], parser_state(p))} :
        /\ prj' = [prj EXCEPT ![p].kerns = st.kerns, ![p].slots = st.slots]
        /\ Slot_id' = st.id
        /\ ret' = [ret EXCEPT ![p] = IF st.exc THEN "raise" ELSE @]
        /\ pc' = [pc EXCEPT ![p] = IF st.exc THEN 0 ELSE @ + 1]
    /\ UNCHANGED <<src, fs, tmpl, disk, ctx, io, tree, gen>>

\* _check_project in the load of p, which ends the load
CheckProject(p) ==
    /\ pc[p] = Len(src[p].sections) + 1
    /\ \E r \in {load_checked(prj[p],
                    check_project(parser_state(p), prj[p].shuffler_slots))} :
        /\ prj' = [prj EXCEPT ![p] = r.prj]
        /\ Slot_id' = r.id
        /\ ret' = [ret EXCEPT ![p] = r.ret]
        /\ pc' = [pc EXCEPT ![p] = 0]
    /\ UNCHANGED <<src, fs, tmpl, disk, ctx, io, tree, gen>>

\* the first load of Project p
FirstLoad(p, f) ==
    /\ ret[p] = "none"
    /\ BeginLoad(p, f)

NextLoads ==
    \/ \E p \in Projects, f \in Files : FirstLoad(p, f)
    \/ \E p \in Projects : ParseSection(p)
    \/ \E p \in Projects : CheckProject(p)

SpecLoads == Init /\ [][NextLoads]_vars

(***************************************************************************)
(* Template lookup.  The filesystem helpers of shutil2 are modelled by     *)
(* their contract: a path exists when the filesystem holds it, join        *)
(* appends components.                                                     *)
(***************************************************************************)
exists(path) == path \in fs

join(path, a, b) == path \o <<a, b>>

\* Project.get_template(name)
get_template(P, name) ==
    IF exists(join(P.dir, "templates", name))
    THEN join(P.dir, "templates", name)
    ELSE join(P.repo, "templates", name)

TemplateNames == {"t1", "t2"}

TemplateDirs ==
    {join(d, "templates", n) : d \in {<<"prjA">>, <<"repo">>}, n \in TemplateNames}

TemplateFiles ==
    {File(<<"prjA", "a.cfg">>, TRUE, TRUE, "ok", "A", Absent, <<Plain("a", Absent)>>),
     File(<<"prjB", "b.cfg">>, TRUE, TRUE, "ok", "B", Absent, <<Plain("b", Absent)>>)}

InitTemplate ==
    /\ Slot_id = 0
    /\ prj = [p \in Projects |-> new_project(<<"repo">>)]
    /\ ret = [p \in Projects |-> "none"]
    /\ src = [p \in Projects |-> NoFile]
    /\ pc = [p \in Projects |-> 0]
    /\ fs \in SUBSET TemplateDirs
    /\ tmpl = NoCall
    /\ NoPreproc

\* p.get_template(name)
GetTemplate(p, name) ==
    /\ tmpl' = [called |-> TRUE, p |-> p, name |-> name,
                result |-> get_template(prj[p], name)]
    /\ UNCHANGED <<Slot_id, prj, ret, src, fs, disk, ctx, io, tree, gen, pc>>

NextTemplate ==
    \/ \E f \in TemplateFiles : Load("p1", f)
    \/ \E p \in Projects, name \in TemplateNames : GetTemplate(p, name)

SpecTemplate == InitTemplate /\ [][NextTemplate]_vars

(***************************************************************************)
(* utils/template.py: the macro expansion of one template file.            *)
(*                                                                         *)
(* Python values of a dictionary are tagged records, a dictionary is a     *)
(* function from its keys to values, a scope is a sequence of dictionaries *)
(* (searched from its first element on).                                   *)
(***************************************************************************)
PyInt(n) == [ty |-> "int", v |-> n]
PyBool(b) == [ty |-> "bool", v |-> b]
PyStr(s) == [ty |-> "str", v |-> s]
PyList(l) == [ty |-> "list", v |-> l]
PyModule == [ty |-> "module", v |-> 0]

\* d[key] = value added to dictionary d (value replaces an older d[key])
py_update(d, key, value) == (key :> value) @@ d

\* what eval(expr, d) leaves in d
with_builtins(d) == py_update(d, "__builtins__", PyModule)

\* str(value); the text of a list or module is kept opaque
py_str(value) ==
    CASE value.ty = "int" -> ToString(value.v)
      [] value.ty = "bool" -> (IF value.v THEN "True" ELSE "False")
      [] value.ty = "str" -> value.v
      [] OTHER -> "<repr>"

\* fmt.format(value) for the format strings "{}" and "[{}]"
py_format(fmt, value) ==
    IF fmt = "[{}]" THEN <<"[", py_str(value), "]">> ELSE <<py_str(value)>>

is_number(value) == value.ty \in {"int", "bool"}

number(value) ==
    IF value.ty = "bool" THEN (IF value.v THEN 1 ELSE 0) ELSE value.v

py_eq(a, b) ==
    IF is_number(a) /\ is_number(b) THEN number(a) = number(b)
    ELSE a.ty = b.ty /\ a.v = b.v

\* a comp b of Python: "true", "false", or "raise" (TypeError: an order
\* between a number and a text; texts are never ordered against texts here)
py_compare(a, comp, b) ==
    CASE comp = "==" -> (IF py_eq(a, b) THEN "true" ELSE "false")
      [] comp = "!=" -> (IF py_eq(a, b) THEN "false" ELSE "true")
      [] comp = "<" ->
            IF is_number(a) /\ is_number(b)
            THEN (IF number(a) < number(b) THEN "true" ELSE "false")
            ELSE "raise"
      [] OTHER -> "raise"

\* eval("key comp value", d): NameError when d has no such key
py_eval(d, key, comp, value) ==
    IF key \notin DOMAIN d THEN "raise" ELSE py_compare(d[key], comp, value)

(***************************************************************************)
(* The text of a file is a sequence of tokens: pieces of plain text, line  *)
(* ends, and the macros the regular expressions of template.py recognise.  *)
(* d is the nesting depth (the number of "=" signs in the delimiters).     *)
(***************************************************************************)
Tok(t, d, k, a) == [t |-> t, d |-> d, k |-> k, a |-> a]

Lit(s) == Tok("lit", 0, s, <<>>)                      \* plain text s
NL == Tok("nl", 0, "", <<>>)                          \* "\n"
Sub(key) == Tok("sub", 0, key, <<>>)                  \* <a3<key>a3>
SubF(key, fmt) == Tok("sub", 0, key, <<fmt>>)         \* <a3<key|fmt>a3>
Sep(c) == Tok("sep", 0, c, <<>>)                      \* <a3<cC>a3>
GenFor(d, key) == Tok("gen", d, key, <<>>)            \* <a3<generate for key>a3>
GenForIf(d, key, ck, comp, value) ==                  \* ... for key(ck comp value)
    Tok("gen", d, key, <<ck, comp, value>>)
EndGen(d) == Tok("endgen", d, "", <<>>)               \* <a3<end generate>a3>
If(d, key, comp, value) == Tok("if", d, key, <<comp, value>>)
EndIf(d) == Tok("endif", d, "", <<>>)                 \* <a3<end if>a3>
Marker == Sub("artico3_preproc")                      \* <a3<artico3_preproc>a3>
Raised == Tok("raise", 0, "", <<>>)                   \* an exception left the pass
Undecodable == Tok("bytes", 0, "", <<>>)              \* bytes that are no text

Lits(strings) == [i \in 1..Len(strings) |-> Lit(strings[i])]

RECURSIVE Flatten(_)
Flatten(seqs) ==
    IF seqs = <<>> THEN <<>> ELSE Head(seqs) \o Flatten(Tail(seqs))

Count(data, tok) == Cardinality({i \in 1..Len(data) : data[i] = tok})

Min(S) == CHOOSE x \in S : \A y \in S : x <= y

\* the first index from `from` on of a closing delimiter of this kind and depth
\* that is followed by a line end; 0 when there is none
first_end(data, from, kind, depth) ==
    LET ends == {q \in from..(Len(data) - 1) :
                    /\ data[q].t = kind
                    /\ data[q].d = depth
                    /\ data[q + 1] = NL}
    IN  IF ends = {} THEN 0 ELSE Min(ends)

\* the index of the next conditioned opening delimiter of a loop of this depth
\* that is followed by a line end; 0 when there is none
next_cond(data, p, depth) ==
    LET opens == {q \in (p + 1)..(Len(data) - 1) :
                    /\ data[q].t = "gen"
                    /\ data[q].d = depth
                    /\ data[q].a # <<>>
                    /\ data[q + 1] = NL}
    IN  IF opens = {} THEN 0 ELSE Min(opens)

\* a condition that is not an expression (eval raises SyntaxError)
NoExpr == <<"", "", PyInt(0)>>

\* re.match at index p of  open cd \n? data close cd  for blocks of one kind
\* and depth: cd of a nested block ends in a mandatory line end, the block
\* of depth 0 takes  >a3>\n?  after its opening delimiter.  The condition
\* of a loop is  \((?P<cond>.*?)\)  under re.DOTALL: when the opening
\* delimiter of a nested conditioned loop is not followed by a line end, the
\* condition runs on to the next  ")" cd  of the text.  tok is the opening
\* delimiter as the expression reads it.
block_match(data, p, kind, endkind, depth) ==
    LET eol == p + 1 <= Len(data) /\ data[p + 1] = NL
        runon == kind = "gen" /\ depth > 0 /\ data[p].a # <<>> /\ ~eol
        open == IF runon THEN next_cond(data, p, depth) ELSE p
        after == IF depth = 0 THEN open + 1 ELSE open + 2
        from == IF after <= Len(data) /\ data[after] = NL
                THEN after + 1 ELSE after
        q == first_end(data, from, endkind, depth)
    IN  IF /\ data[p].t = kind
           /\ data[p].d = depth
           /\ (depth = 0 \/ eol \/ (runon /\ open # 0))
           /\ q # 0
        THEN [ok |-> TRUE, data |-> SubSeq(data, from, q - 1), end |-> q + 1,
              tok |-> IF runon THEN [data[p] EXCEPT !.a = NoExpr] ELSE data[p]]
        ELSE [ok |-> FALSE, data |-> <<>>, end |-> p, tok |-> data[p]]

\* the values found from the outermost frame inwards
lookup_outermost_first(scope, key) ==
    LET hits == SelectSeq(scope, LAMBDA f : key \in DOMAIN f)
    IN  [i \in 1..Len(hits) |-> hits[Len(hits) + 1 - i][key]]

\* values = [_[key] for _ in scope if key in _]
lookup(scope, key) ==
    LET hits == SelectSeq(scope, LAMBDA f : key \in DOMAIN f)
    IN  [i \in 1..Len(hits) |-> hits[i][key]]

\* repl of _gen_: a key of the scope is replaced by its text, a key no frame
\* has is rewritten as <a3<key>a3>, whatever format the token carried
gen_repl(nscope, tok) ==
    LET values == lookup(nscope, tok.k)
    IN  IF tok.t # "sub" THEN <<tok>>
        ELSE IF values = <<>> THEN <<Sub(tok.k)>>
        ELSE IF tok.a = <<>> THEN <<Lit(py_str(values[1]))>>
        ELSE Lits(py_format(tok.a[1], values[1]))

gen_subst(ndata, nscope) ==
    Flatten([i \in 1..Len(ndata) |-> gen_repl(nscope, ndata[i])])

\* the separator tokens: their character when keep, nothing otherwise
gen_separator(ndata, keep) ==
    Flatten([i \in 1..Len(ndata) |->
                IF ndata[i].t # "sep" THEN <<ndata[i]>>
                ELSE IF keep THEN <<Lit(ndata[i].k)>>
                ELSE <<>>])

\* if ndata.count("\n") > 1: ndata += "\n"
gen_newline(ndata) ==
    IF Count(ndata, NL) > 1 THEN ndata \o <<NL>> ELSE ndata

\* a loop that runs once more than the int says
gen_list_one_more(value) ==
    IF value.ty = "int"
    THEN PyList([j \in 1..(value.v + 1) |-> <<>>])
    ELSE value

\* the list a loop runs over: an int n stands for n empty dictionaries
gen_list(value) ==
    IF value.ty = "int"
    THEN PyList([j \in 1..value.v |-> <<>>])
    ELSE value

RECURSIVE gen_sub(_, _, _)
RECURSIVE gen_for(_, _, _, _, _)

\* a replacement that takes a bool for the int it is in Python (True is 1)
gen_preproc_bool_as_int(scope, tok, data, whole) ==
    LET values == lookup(scope, tok.k)
        value == IF is_number(values[1])
                 THEN gen_list(PyInt(number(values[1])))
                 ELSE values[1]
    IN  IF values = <<>> THEN whole
        ELSE IF value.ty # "list" THEN whole
        ELSE gen_for(scope, tok, data, value.v, [j |-> 1, i |-> 0])

\* _gen_ of _gen_preproc(scope): the replacement of one matched block; tok is
\* its opening delimiter, data its body and whole the matched text
gen_preproc(scope, tok, data, whole) ==
    LET values == lookup(scope, tok.k)
        value == gen_list(values[1])
    IN  IF values = <<>> THEN whole
        ELSE IF values[1].ty = "bool"
             THEN (IF values[1].v THEN data ELSE <<>>)
        ELSE IF value.ty # "list" THEN whole
        ELSE gen_for(scope, tok, data, value.v, [j |-> 1, i |-> 0])

\* the loop  for r in value  from its element at.j on, with the counter at.i
gen_for(scope, tok, data, value, at) ==
    IF at.j > Len(value) THEN <<>>
    ELSE
        LET r == value[at.j]
            plain == r @@ ("_i" :> PyInt(at.i))
            cond == IF tok.a = <<>> THEN "true"
                    ELSE py_eval(plain, tok.a[1], tok.a[2], tok.a[3])
            local == IF tok.a = <<>> THEN plain ELSE with_builtins(plain)
            nscope == <<local>> \o scope
            ndata == gen_newline(
                        gen_separator(
                            gen_subst(gen_sub(data, 1, nscope), nscope),
                            at.i < Len(value) - 1))
        IN  CASE cond = "raise" -> <<Raised>>
              [] cond = "false" ->
                    gen_for(scope, tok, data, value, [j |-> at.j + 1, i |-> at.i])
              [] OTHER ->
                    ndata \o gen_for(scope, tok, data, value,
                                     [j |-> at.j + 1, i |-> at.i + 1])

\* re.sub(reg, _gen_preproc(scope), data) from index p on, reg being the
\* generate block of depth len(scope) - 1
gen_sub(data, p, scope) ==
    IF p > Len(data) THEN <<>>
    ELSE
        LET m == block_match(data, p, "gen", "endgen", Len(scope) - 1)
        IN  IF m.ok
            THEN gen_preproc(scope, m.tok, m.data, SubSeq(data, p, m.end))
                     \o gen_sub(data, m.end + 1, scope)
            ELSE <<data[p]>> \o gen_sub(data, p + 1, scope)

RECURSIVE if_sub(_, _, _)

\* _gen_ of _if_preproc(scope): the condition is evaluated in scope[0]
if_preproc(scope, tok, data) ==
    LET cond == py_eval(scope[1], tok.k, tok.a[1], tok.a[2])
    IN  CASE cond = "raise" -> <<Raised>>
          [] cond = "true" -> if_sub(data, 1, scope \o <<(<<>>)>>)
          [] OTHER -> <<>>

\* re.sub(reg, _if_preproc(scope), data) from index p on
if_sub(data, p, scope) ==
    IF p > Len(data) THEN <<>>
    ELSE
        LET m == block_match(data, p, "if", "endif", Len(scope) - 1)
        IN  IF m.ok
            THEN if_preproc(scope, m.tok, m.data) \o if_sub(data, m.end + 1, scope)
            ELSE <<data[p]>> \o if_sub(data, p + 1, scope)

\* whether the if pass calls eval at all, which leaves __builtins__ in the
\* dictionary: it does when some block of depth 0 matches
if_matches(data) ==
    \E p \in 1..Len(data) : block_match(data, p, "if", "endif", 0).ok

\* re.sub(r"<a3<artico3_preproc>a3>[\n]", "", data)
strip_marker(data) ==
    LET keep == {i \in 1..Len(data) :
                    /\ ~(data[i] = Marker /\ i < Len(data) /\ data[i + 1] = NL)
                    /\ ~(data[i] = NL /\ i > 1 /\ data[i - 1] = Marker)}
        RECURSIVE pick(_)
        pick(i) == IF i > Len(data) THEN <<>>
                   ELSE (IF i \in keep THEN <<data[i]>> ELSE <<>>) \o pick(i + 1)
    IN  pick(1)

\* repl of preproc: a key of the dictionary is replaced by its text, any
\* other token stays as it is
preproc_repl(dictionary, tok) ==
    IF tok.t # "sub" \/ tok.k \notin DOMAIN dictionary THEN <<tok>>
    ELSE IF tok.a = <<>> THEN <<Lit(py_str(dictionary[tok.k]))>>
    ELSE Lits(py_format(tok.a[1], dictionary[tok.k]))

\* a replacement that also takes the keys of the first element of the list
\* "L", as if a frame of the loop were still in scope
preproc_subst_in_frame(data, dictionary) ==
    LET frame == IF "L" \in DOMAIN dictionary /\ dictionary["L"].v # <<>>
                 THEN dictionary["L"].v[1] @@ dictionary
                 ELSE dictionary
    IN  Flatten([i \in 1..Len(data) |-> preproc_repl(frame, data[i])])

\* the same replacement followed by one more line end
preproc_subst_newline(data, dictionary) ==
    Flatten([i \in 1..Len(data) |-> preproc_repl(dictionary, data[i])]) \o <<NL>>

preproc_subst(data, dictionary) ==
    Flatten([i \in 1..Len(data) |-> preproc_repl(dictionary, data[i])])

has_raised(data) == \E i \in 1..Len(data) : data[i] = Raised

\* file.read() raises (UnicodeDecodeError) on a file that holds bytes that
\* are no text; preproc catches the exception and returns
read_raises(data) == \E i \in 1..Len(data) : data[i] = Undecodable

\* a call that never returns early, marker or not
preproc_skip_never(data, force) == FALSE

\* "<a3<artico3_preproc>a3>" not in data and not force
preproc_skip(data, force) == Count(data, Marker) = 0 /\ ~force

\* preproc(filepath, dictionary, mode, force) on a file that holds data:
\* ret tells how the call ended ("unread": the file could not be read and the
\* call returned; "skipped": no marker; "raise": an exception left the call;
\* "done": it came to its end), out the text it computed, wrote whether it
\* wrote out into the file, dict what it left in the dictionary
preproc(data, dictionary, mode, force) ==
    LET skip == preproc_skip(data, force)
        loops == gen_sub(strip_marker(data), 1, <<dictionary>>)
        evald == if_matches(loops)
        dict == IF evald THEN with_builtins(dictionary) ELSE dictionary
        ifs == if_sub(loops, 1, <<dictionary>>)
        out == preproc_subst(ifs, dict)
    IN  IF read_raises(data)
        THEN [ret |-> "unread", out |-> <<>>, wrote |-> FALSE,
              printed |-> FALSE, dict |-> dictionary]
        ELSE IF skip
        THEN [ret |-> "skipped", out |-> <<>>, wrote |-> FALSE,
              printed |-> FALSE, dict |-> dictionary]
        ELSE IF has_raised(loops)
        THEN [ret |-> "raise", out |-> <<>>, wrote |-> FALSE,
              printed |-> FALSE, dict |-> dictionary]
        ELSE IF has_raised(ifs)
        THEN [ret |-> "raise", out |-> <<>>, wrote |-> FALSE,
              printed |-> FALSE, dict |-> dict]
        ELSE [ret |-> "done", out |-> out, wrote |-> mode = "overwrite",
              printed |-> mode = "print", dict |-> dict]

(***************************************************************************)
(* The template files and dictionaries preproc is run on.                  *)
(***************************************************************************)
MaxItems == 3       \* the longest list, and the largest count, of a loop
MaxRuns == 2        \* calls of preproc on the one file

Names == <<"a", "b", "c", "d", "e">>

\* element j of the list "L": its name and the count of its nested loop, and
\* two keys the dictionary has too
Item(j) ==
    [n |-> PyStr(Names[j]), M |-> PyInt(j - 1), S |-> PyStr("item"), N |-> PyInt(1)]

\* the dictionary of a project with len items: "U" and "q" are never keys
Dictionary(len) ==
    [L |-> PyList([j \in 1..len |-> Item(j)]), N |-> PyInt(len),
     T |-> PyBool(TRUE), F |-> PyBool(FALSE), S |-> PyStr("str"), X |-> PyInt(7)]

Dictionaries == {Dictionary(len) : len \in 0..MaxItems}

\* loop bodies of plain text and the index
PlainBodies ==
    {<<Lit("x"), Sub("_i"), NL>>,
     <<Lit("x"), Sub("_i")>>,
     <<Lit("x"), NL, Sub("_i"), NL>>}

\* loop bodies with a trailing separator
SepBodies ==
    {<<Lit("x"), Sub("_i"), Sep(","), NL>>,
     <<Sub("n"), Sep(",")>>}

\* loop bodies with keys no frame has, and with formats
KeyBodies ==
    {<<Sub("U"), NL>>,
     <<SubF("U", "[{}]"), NL>>,
     <<Sub("_i"), SubF("X", "[{}]"), NL>>}

\* loop bodies with a nested block
NestedBodies ==
    {<<Sub("n"), NL, GenFor(1, "M"), NL, Sub("_i"), Sep(";"), EndGen(1), NL>>,
     <<GenFor(1, "U"), NL, Sub("_i"), NL, EndGen(1), NL>>,
     <<If(0, "X", "==", PyInt(7)), NL, Sub("n"), NL, EndIf(0), NL>>}

Bodies == PlainBodies \cup SepBodies \cup KeyBodies \cup NestedBodies

LoopKeys == {"L", "N", "T", "F", "U", "S"}

Conditions ==
    {<<"n", "!=", PyStr("b")>>, <<"n", "==", PyStr("b")>>,
     <<"_i", "!=", PyInt(1)>>, <<"q", "==", PyInt(1)>>}

Loop(key, body) == <<GenFor(0, key), NL>> \o body \o <<EndGen(0), NL>>

LoopIf(key, c, body) ==
    <<GenForIf(0, key, c[1], c[2], c[3]), NL>> \o body \o <<EndGen(0), NL>>

Loops ==
    {Loop(key, body) : key \in LoopKeys, body \in Bodies}
    \cup {LoopIf(key, c, body) : key \in {"L", "N"}, c \in Conditions,
                                 body \in PlainBodies \cup SepBodies}

Tests ==
    {<<"X", "==", PyInt(7)>>, <<"X", "==", PyInt(8)>>, <<"X", "<", PyInt(9)>>,
     <<"S", "==", PyStr("str")>>, <<"S", "<", PyInt(1)>>,
     <<"U", "==", PyInt(1)>>, <<"U", "!=", PyInt(1)>>}

IfBodies ==
    {<<Lit("y"), NL>>,
     <<Sub("X"), NL>>,
     <<If(1, "X", "==", PyInt(7)), NL, Lit("y"), NL, EndIf(1), NL>>,
     <<If(1, "U", "==", PyInt(7)), NL, Lit("y"), NL, EndIf(1), NL>>}

IfBlock(c, body) == <<If(0, c[1], c[2], c[3]), NL>> \o body \o <<EndIf(0), NL>>

IfBlocks == {IfBlock(c, body) : c \in Tests, body \in IfBodies}

Lines ==
    {<<Lit("x"), NL>>, <<Sub("X"), NL>>, <<Sub("U"), NL>>,
     <<SubF("X", "[{}]"), NL>>, <<SubF("U", "[{}]"), NL>>}

Blocks == Loops \cup IfBlocks \cup Lines

\* a file of one block between two pieces of text, with the marker line
Marked(block) == <<Marker, NL, Lit("pre")>> \o block \o <<Lit("post"), NL>>

\* the same file without the marker line
Unmarked(block) == <<Lit("pre")>> \o block \o <<Lit("post"), NL>>

\* a loop followed by a line with keys of its frames, and loops inside a
\* conditional block
AfterLoop ==
    Loop("L", <<Sub("n"), NL>>) \o <<Sub("n"), Sub("_i"), Sub("X"), NL>>

IndexBody == <<Lit("x"), Sub("_i"), NL>>

OrderBlocks ==
    {AfterLoop}
    \cup {IfBlock(c, loop) :
            c \in {<<"X", "==", PyInt(7)>>, <<"X", "==", PyInt(8)>>},
            loop \in {Loop("N", IndexBody),
                      LoopIf("N", <<"q", "==", PyInt(1)>>, IndexBody)}}

\* loops over "L" with an inner loop that uses keys of all the frames
InnerFrames ==
    <<GenFor(1, "M"), NL, Sub("_i"), Sub("n"), Sub("X"), Sub("S"), NL,
      EndGen(1), NL>>

InnerKey == <<GenFor(1, "N"), NL, Sub("_i"), NL, EndGen(1), NL>>

\* a conditional block on a key of the elements of "L"
FrameTest == <<If(0, "n", "==", PyStr("b")), NL, Sub("n"), NL, EndIf(0), NL>>

ScopeBlocks ==
    {Loop("L", InnerFrames), Loop("L", InnerKey), Loop("L", FrameTest)}

\* blocks that open and never close
OpenBlocks ==
    {<<GenFor(0, "N"), NL, Lit("x"), Sub("X"), NL>>,
     <<If(0, "X", "==", PyInt(7)), NL, Sub("X"), NL>>,
     <<GenFor(0, "N"), NL, GenFor(1, "N"), NL, Sub("X"), NL, EndGen(0), NL>>}

\* a file that is no text, with the bytes of the marker line or without
Binaries == {<<Marker, NL, Undecodable, NL>>, <<Undecodable, NL>>}

Texts ==
    {Marked(b) : b \in Blocks \cup OpenBlocks \cup OrderBlocks \cup ScopeBlocks}
    \cup {Unmarked(b) : b \in Blocks} \cup Binaries

Modes == {"print", "overwrite"}

InitPreproc ==
    /\ Slot_id = 0
    /\ prj = [p \in Projects |-> new_project(<<"repo">>)]
    /\ ret = [p \in Projects |-> "none"]
    /\ src = [p \in Projects |-> NoFile]
    /\ pc = [p \in Projects |-> 0]
    /\ fs = {}
    /\ tmpl = NoCall
    /\ disk \in Texts
    /\ ctx \in Dictionaries
    /\ io = NoRun
    /\ NoGenerate

\* preproc(filepath, ctx, mode, force) on the file that holds disk
Preproc(mode, force) ==
    /\ io.runs < MaxRuns
    /\ \E r \in {preproc(disk, ctx, mode, force)} :
        /\ disk' = (IF r.wrote THEN r.out ELSE disk)
        /\ ctx' = r.dict
        /\ io' = [runs |-> io.runs + 1, mode |-> mode, force |-> force,
                  ret |-> r.ret, wrote |-> r.wrote, printed |-> r.printed,
                  before |-> disk, out |-> r.out,
                  rewrites |-> io.rewrites + (IF io.wrote THEN 1 ELSE 0)]
    /\ UNCHANGED <<Slot_id, prj, ret, src, fs, tmpl, tree, gen, pc>>

NextPreproc == \E mode \in Modes, force \in BOOLEAN : Preproc(mode, force)

SpecPreproc == InitPreproc /\ [][NextPreproc]_vars

(***************************************************************************)
(* utils/template.py: generate, the three walks over a template tree.      *)
(*                                                                         *)
(* A tree is a function from the paths below its root to nodes, a path a   *)
(* sequence of names and a name a sequence of tokens.  The shutil2 helpers *)
(* act on it as their names and the callers in template.py tell.           *)
(***************************************************************************)
CopyFor(key) == Tok("copy", 0, key, <<>>)     \* <a3<generate_for_key>a3>

Node(dir, data, link) == [dir |-> dir, data |-> data, link |-> link]

basename(path) == path[Len(path)]

below(path, q) == Len(path) <= Len(q) /\ SubSeq(q, 1, Len(path)) = path

remove(t, path) == [q \in DOMAIN t \ {path} |-> t[q]]

rmtree(t, path) == [q \in {q \in DOMAIN t : ~below(path, q)} |-> t[q]]

rename(t, old, new) ==
    LET stay == {q \in DOMAIN t : ~below(old, q)}
        to(q) == new \o SubSeq(q, Len(old) + 1, Len(q))
        from(q) == old \o SubSeq(q, Len(new) + 1, Len(q))
    IN  [q \in stay \cup {to(q) : q \in DOMAIN t \ stay} |->
            IF q \in stay THEN t[q] ELSE t[from(q)]]

\* the trees the dictionary can name: for each its files and their content
Sources ==
    [srcA |-> (<<Lit("s1.c")>> :> <<Lit("one"), NL>>),
     srcB |-> (<<Lit("s2.c")>> :> <<Marker, NL, Sub("X"), NL>>)]

\* copytree(source, dst, True) and linktree(source, dst)
copytree(t, source, dst, link) ==
    LET files == Sources[source]
        new == {dst \o <<n>> : n \in DOMAIN files}
    IN  [q \in DOMAIN t \cup new |->
            IF q \in new THEN Node(FALSE, files[basename(q)], link) ELSE t[q]]

RECURSIVE copy_all(_, _, _, _)
\* for f in dictionary[key]: copytree or linktree of f into dst
copy_all(t, sources, dst, link) ==
    IF sources = <<>> THEN t
    ELSE copy_all(copytree(t, Head(sources).v, dst, link), Tail(sources), dst, link)

\* precopy(filepath, dictionary, link)
precopy(t, filepath, dictionary, link) ==
    LET name == basename(filepath)
        removed == remove(t, filepath)
    IN  IF name[1].t # "copy" THEN t
        ELSE IF name[1].k \in DOMAIN dictionary
        THEN copy_all(removed, dictionary[name[1].k].v, dirname(filepath), link)
        ELSE removed

\* the key the expression <a3<([A-Za-z0-9_]+)>a3> reads in a token of a name
name_key(tok) == IF tok.t = "copy" THEN "generate_for_" \o tok.k ELSE tok.k

\* re.sub(reg, repl, old) of prefile and predirectory
new_name(old, dictionary) ==
    [i \in 1..Len(old) |->
        IF old[i].t \in {"sub", "copy"} /\ name_key(old[i]) \in DOMAIN dictionary
        THEN Lit(py_str(dictionary[name_key(old[i])]))
        ELSE old[i]]

\* prefile(filepath, dictionary), and the renaming of predirectory
prefile(t, filepath, dictionary) ==
    LET old == basename(filepath)
        new == dirname(filepath) \o <<new_name(old, dictionary)>>
    IN  IF new_name(old, dictionary) = old THEN t
        ELSE rename(IF new \in DOMAIN t THEN rmtree(t, new) ELSE t, filepath, new)

\* predirectory(dirpath, dirs, dictionary): what it leaves in dirs
predirectory(dirs, dirpath, dictionary) ==
    LET old == basename(dirpath)
        new == dirname(dirpath) \o <<new_name(old, dictionary)>>
    IN  IF new_name(old, dictionary) = old THEN dirs
        ELSE (dirs \ {dirpath}) \cup {new}

\* a generate that expands the contents before it renames
pass_after_content_first(pass) ==
    CASE pass = "precopy" -> "preproc"
      [] pass = "preproc" -> "rename"
      [] OTHER -> "done"

\* generate: the walk that follows the walk of a pass
pass_after(pass) ==
    CASE pass = "precopy" -> "rename"
      [] pass = "rename" -> "preproc"
      [] OTHER -> "done"

Walking == {"precopy", "rename", "preproc"}

children(t, path) == {q \in DOMAIN t : Len(q) = Len(path) + 1 /\ below(path, q)}

Event(op, path) == [op |-> op, path |-> path]

Did(op, path) ==
    [gen EXCEPT !.log = Append(@, Event(op, path)), !.prev = tree]

(***************************************************************************)
(* The template trees and dictionaries generate is run on.                 *)
(***************************************************************************)
Contents ==
    {<<Marker, NL, Sub("X"), NL>>, <<Sub("X"), NL>>, <<Lit("x"), NL>>,
     <<Marker, NL, Undecodable, NL>>}

RootFileNames == {<<Lit("a.c")>>, <<Sub("NAME"), Lit(".c")>>, <<CopyFor("K")>>}

DirNames == {<<Lit("d")>>, <<Sub("NAME"), Lit("_d")>>}

DirFileNames == {<<Lit("b.c")>>, <<Sub("U"), Lit(".c")>>, <<CopyFor("K")>>}

\* a root with one file and one directory that holds one file
Tree(a, d, b, data) ==
    (<<a>> :> Node(FALSE, data, FALSE))
    @@ (<<d>> :> Node(TRUE, <<>>, FALSE))
    @@ (<<d, b>> :> Node(FALSE, <<Marker, NL, Sub("X"), NL>>, FALSE))

Trees ==
    {Tree(a, d, b, data) : a \in RootFileNames, d \in DirNames,
                           b \in DirFileNames, data \in Contents}

GenDictionary(hasK, hasName) ==
    [X |-> PyInt(7)]
    @@ (IF hasK THEN [K |-> PyList(<<PyStr("srcA"), PyStr("srcB")>>)] ELSE <<>>)
    @@ (IF hasName THEN [NAME |-> PyStr("demo")] ELSE <<>>)

GenDictionaries == {GenDictionary(k, n) : k \in BOOLEAN, n \in BOOLEAN}

InitGenerate ==
    /\ Slot_id = 0
    /\ prj = [p \in Projects |-> new_project(<<"repo">>)]
    /\ ret = [p \in Projects |-> "none"]
    /\ src = [p \in Projects |-> NoFile]
    /\ pc = [p \in Projects |-> 0]
    /\ fs = {}
    /\ tmpl = NoCall
    /\ disk = <<>>
    /\ io = NoRun
    /\ ctx \in GenDictionaries
    /\ tree \in Trees
    /\ gen = Idle

\* generate(filepath, ctx, mode, link) is called: its first walk starts
Generate(mode, link) ==
    /\ gen.pass = "idle"
    /\ gen' = [gen EXCEPT !.pass = "precopy", !.mode = mode, !.link = link,
                          !.dirs = {<<>>}, !.start = tree, !.prev = tree]
    /\ UNCHANGED <<Slot_id, prj, ret, src, fs, tmpl, disk, ctx, io, tree, pc>>

\* shutil2.walk comes to directory d and lists it; only the walk of the
\* renaming pass has a callback for directories
WalkInto(d) ==
    /\ gen.pass \in Walking
    /\ gen.files = {} /\ gen.subs = {}
    /\ d \in gen.dirs
    /\ LET sub == {q \in children(tree, d) : tree[q].dir}
       IN  gen' = [gen EXCEPT !.files = children(tree, d) \ sub,
                              !.subs = IF gen.pass = "rename" THEN sub ELSE {},
                              !.dirs = (@ \ {d}) \cup sub]
    /\ UNCHANGED <<Slot_id, prj, ret, src, fs, tmpl, disk, ctx, io, tree, pc>>

\* pc(f) of the first walk
Precopy(f) ==
    /\ gen.pass = "precopy"
    /\ f \in gen.files
    /\ tree' = precopy(tree, f, ctx, gen.link)
    /\ gen' = [Did("precopy", f) EXCEPT !.files = @ \ {f}]
    /\ UNCHANGED <<Slot_id, prj, ret, src, fs, tmpl, disk, ctx, io, pc>>

\* pf(f) of the second walk
Prefile(f) ==
    /\ gen.pass = "rename"
    /\ f \in gen.files
    /\ tree' = prefile(tree, f, ctx)
    /\ gen' = [Did("prefile", f) EXCEPT !.files = @ \ {f}]
    /\ UNCHANGED <<Slot_id, prj, ret, src, fs, tmpl, disk, ctx, io, pc>>

\* pd(d, dirs) of the second walk
Predirectory(d) ==
    /\ gen.pass = "rename"
    /\ d \in gen.subs
    /\ tree' = prefile(tree, d, ctx)
    /\ gen' = [Did("predirectory", d) EXCEPT
                   !.subs = @ \ {d},
                   !.dirs = predirectory(@, d, ctx)]
    /\ UNCHANGED <<Slot_id, prj, ret, src, fs, tmpl, disk, ctx, io, pc>>

\* pp(f) of the third walk: preproc(f, ctx, mode); an exception of preproc
\* ends generate
Expand(f) ==
    /\ gen.pass = "preproc"
    /\ f \in gen.files
    /\ \E r \in {preproc(tree[f].data, ctx, gen.mode, FALSE)} :
        /\ tree' = IF r.wrote THEN [tree EXCEPT ![f].data = r.out] ELSE tree
        /\ ctx' = r.dict
        /\ gen' = [Did("preproc", f) EXCEPT
                       !.files = @ \ {f},
                       !.pass = IF r.ret = "raise" THEN "raised" ELSE @]
    /\ UNCHANGED <<Slot_id, prj, ret, src, fs, tmpl, disk, io, pc>>

\* a walk has been through the whole tree: the next one starts at the root
WalkDone ==
    /\ gen.pass \in Walking
    /\ gen.files = {} /\ gen.subs = {} /\ gen.dirs = {}
    /\ gen' = [gen EXCEPT !.pass = pass_after(@),
                          !.dirs = IF pass_after(gen.pass) \in Walking
                                   THEN {<<>>} ELSE {}]
    /\ UNCHANGED <<Slot_id, prj, ret, src, fs, tmpl, disk, ctx, io, tree, pc>>

NextGenerate ==
    \/ \E mode \in Modes, link \in BOOLEAN : Generate(mode, link)
    \/ \E d \in gen.dirs : WalkInto(d)
    \/ \E f \in gen.files : Precopy(f)
    \/ \E f \in gen.files : Prefile(f)
    \/ \E d \in gen.subs : Predirectory(d)
    \/ \E f \in gen.files : Expand(f)
    \/ WalkDone

SpecGenerate == InitGenerate /\ [][NextGenerate]_vars

(***************************************************************************)
(* Properties.                                                             *)
(***************************************************************************)
Exits == {"exit_slots", "exit_hwsrc", "exit_membytes", "exit_rstpol"}

\* the last load of p went through _parse_project and reached the end of
\* _check_project or one of its sys.exit(1)
Parsed(p) == ret[p] \in Exits \cup {"ok"}

\* the kernel sections of the file last loaded by p, in file order; after a
\* load that is Parsed the i-th of them made prj[p].kerns[i]
KSections(p) == SelectSeq(src[p].sections, is_kernel_section)

\* a % n of Python (the sign of the result is that of n), n # 0
py_mod(a, n) == IF n > 0 THEN a % n ELSE -((-a) % (-n))

\* the number of slots of p bound to its i-th kernel
SlotsOf(p, i) ==
    Cardinality({j \in 1..Len(prj[p].slots) : prj[p].slots[j].kerns = <<i>>})

RECURSIVE SumReplicas(_)
\* the slots a file declares: the sum of the replica counts of its kernel
\* sections (1 where Replicas is absent)
SumReplicas(sections) ==
    IF sections = <<>> THEN 0
    ELSE (IF Head(sections).Replicas.k = "int" THEN Head(sections).Replicas.v ELSE 1)
         + SumReplicas(Tail(sections))

\* the slot capacity a file declares (3 where Slots is absent)
Capacity(f) == IF f.Slots.k = "int" THEN f.Slots.v ELSE 3

\* the validation rules of a kernel, stated on its own
ValidKernel(k) ==
    /\ k.hwsrc # None
    /\ k.membytes <= 65536
    /\ k.rstpol \in {"high", "low"}

\* C1: after a successful load every kernel of the model, the dummy kernel
\* included, has membytes mod (4 * membanks) = 0.
C1_MemAligned ==
    \A p \in Projects :
        ret[p] = "ok" =>
            \A i \in 1..Len(prj[p].kerns) :
                py_mod(prj[p].kerns[i].membytes, 4 * prj[p].kerns[i].membanks) = 0

C1_Witness ==
    \E p \in Projects :
        /\ ret[p] = "ok"
        /\ Len(prj[p].kerns) = 2
        /\ prj[p].kerns[2].name = "dummy"
        /\ src[p].sections[1].MemBytes = Num(16000)
        /\ src[p].sections[1].MemBanks = Num(3)

\* C2: for a kernel section that declares MemBytes m and MemBanks b >= 1 the
\* size stored is the least multiple of 4*b that is >= m (m itself when m is
\* one; 16008 for m = 16000, b = 3), and the repair fails no load: a file
\* that passes every validation rule loads.
C2_RoundedUp ==
    \A p \in Projects :
        Parsed(p) =>
            /\ \A i \in 1..Len(KSections(p)) :
                LET s == KSections(p)[i]
                    k == prj[p].kerns[i]
                IN  (s.MemBytes.k = "int" /\ s.MemBanks.k = "int" /\ s.MemBanks.v >= 1) =>
                        /\ k.membytes >= s.MemBytes.v
                        /\ k.membytes < s.MemBytes.v + 4 * s.MemBanks.v
                        /\ py_mod(k.membytes, 4 * s.MemBanks.v) = 0
                        /\ (py_mod(s.MemBytes.v, 4 * s.MemBanks.v) = 0
                                => k.membytes = s.MemBytes.v)
                        /\ (s.MemBytes.v = 16000 /\ s.MemBanks.v = 3
                                => k.membytes = 16008)
            /\ ( /\ SumReplicas(KSections(p)) <= Capacity(src[p])
                 /\ \A i \in 1..Len(KSections(p)) : ValidKernel(prj[p].kerns[i])
               ) => ret[p] = "ok"

C2_Witness ==
    \E p \in Projects :
        /\ ret[p] = "ok"
        /\ src[p].sections[1].MemBytes = Num(16000)
        /\ src[p].sections[1].MemBanks = Num(3)
        /\ prj[p].kerns[1].membytes = 16008

\* C3: a load that reaches validation with a kernel whose memory size is
\* above 65536 ends in a validation failure; a file with MemBytes = 70000
\* never loads, whatever the bank count; no kernel of a loaded model has
\* membytes > 65536.
C3_NoOversizedMemory ==
    \A p \in Projects :
        /\ ret[p] = "ok" =>
              \A i \in 1..Len(prj[p].kerns) : prj[p].kerns[i].membytes <= 65536
        /\ ( /\ Parsed(p)
             /\ \E i \in 1..Len(prj[p].kerns) : prj[p].kerns[i].membytes > 65536
           ) => ret[p] \in Exits
        /\ (\E i \in 1..Len(src[p].sections) : src[p].sections[i].MemBytes = Num(70000))
              => ret[p] \in Exits \cup {"raise"}

C3_Witness ==
    \E p \in Projects :
        /\ ret[p] = "exit_membytes"
        /\ src[p].sections[1].MemBytes = Num(70000)
        /\ src[p].sections[1].MemBanks = Num(3)

\* C4: a key absent from a kernel section is given its default (MemBanks 2,
\* RegRW 4, RegRO 4, RstPol "low", MemBytes 16384 before the alignment of C2,
\* Replicas 1) and a key that is present keeps its value.
C4_Defaults ==
    \A p \in Projects :
        Parsed(p) =>
            \A i \in 1..Len(KSections(p)) :
                LET s == KSections(p)[i]
                    k == prj[p].kerns[i]
                IN  /\ k.membanks = (IF s.MemBanks.k = "int" THEN s.MemBanks.v ELSE 2)
                    /\ k.regrw = (IF s.RegRW.k = "int" THEN s.RegRW.v ELSE 4)
                    /\ k.regro = (IF s.RegRO.k = "int" THEN s.RegRO.v ELSE 4)
                    /\ k.rstpol = (IF s.RstPol = <<>> THEN "low" ELSE s.RstPol[1])
                    /\ k.hwsrc = s.HwSource
                    /\ SlotsOf(p, i) = (IF s.Replicas.k = "int" THEN s.Replicas.v ELSE 1)
                    /\ (s.MemBytes.k = "absent" /\ s.MemBanks.k = "absent")
                            => k.membytes = 16384
                    /\ k.membanks >= 1 =>
                          LET m == IF s.MemBytes.k = "int" THEN s.MemBytes.v ELSE 16384
                          IN  /\ k.membytes >= m
                              /\ k.membytes < m + 4 * k.membanks

C4_Witness ==
    \E p \in Projects :
        /\ ret[p] = "ok"
        /\ src[p].sections[1] = Plain("a", Absent)
        /\ prj[p].kerns[1] = [name |-> "a", hwsrc |-> <<"vhdl">>, membytes |-> 16384,
                              membanks |-> 2, regrw |-> 4, regro |-> 4, rstpol |-> "low"]
        /\ SlotsOf(p, 1) = 1

\* C7: every kernel of a loaded model has a hardware-source kind that is
\* present and not empty.
C7_HwSourceNonEmpty ==
    \A p \in Projects :
        ret[p] = "ok" =>
            \A i \in 1..Len(prj[p].kerns) :
                /\ prj[p].kerns[i].hwsrc # <<>>
                /\ prj[p].kerns[i].hwsrc # <<"">>

\* C8: every kernel of a loaded model has reset polarity "high" or "low", and
\* a load that reaches validation with any other configured value ends in a
\* validation failure.
C8_ResetPolarity ==
    \A p \in Projects :
        /\ ret[p] = "ok" =>
              \A i \in 1..Len(prj[p].kerns) : prj[p].kerns[i].rstpol \in {"high", "low"}
        /\ ( /\ Parsed(p)
             /\ \E i \in 1..Len(KSections(p)) :
                   /\ KSections(p)[i].RstPol # <<>>
                   /\ KSections(p)[i].RstPol[1] \notin {"high", "low"}
           ) => ret[p] \in Exits

C8_Witness ==
    \E p \in Projects :
        /\ ret[p] = "exit_rstpol"
        /\ src[p].sections[1].RstPol = <<"hi">>

\* C5: after every successful load, whatever was loaded before in the
\* process, the slots carry the ids 0, 1, ..., n-1 in list order, and the
\* model is the one the same file gives a Project just constructed with the
\* counter at 0: nothing of an earlier load is left in it.
C5_SlotIdsFromZero ==
    \A p \in Projects :
        ret[p] = "ok" =>
            /\ \A j \in 1..Len(prj[p].slots) : prj[p].slots[j].id = j - 1
            /\ \A i, j \in 1..Len(prj[p].slots) :
                  i # j => prj[p].slots[i].id # prj[p].slots[j].id
            /\ prj[p] = load(new_project(prj[p].repo), src[p], 0).prj

C5_Witness ==
    /\ ret["p1"] = "ok"
    /\ ret["p2"] = "ok"
    /\ Len(prj["p1"].slots) = 3
    /\ Len(prj["p2"].slots) = 2
    /\ Slot_id = 2
    /\ prj["p2"].slots[2].id = 1

\* C6: a load that reaches validation ends in the capacity failure
\* ("Configured more accelerators than slots") exactly when the file declares
\* more slots (the sum of the replica counts) than its slot capacity; in a
\* loaded model the Shuffler slot count is at least the number of slots
\* bound to declared kernels.
C6_CapacityCheck ==
    \A p \in Projects :
        Parsed(p) =>
            /\ ret[p] = "exit_slots"
                  <=> SumReplicas(KSections(p)) > Capacity(src[p])
            /\ ret[p] = "ok" =>
                  Cardinality({j \in 1..Len(prj[p].slots) :
                                  prj[p].slots[j].kerns[1] <= Len(KSections(p))})
                      <= prj[p].shuffler_slots

C6_Witness ==
    \E p \in Projects, q \in Projects :
        /\ ret[p] = "exit_slots"
        /\ SumReplicas(KSections(p)) = Capacity(src[p]) + 1
        /\ ret[q] = "ok"
        /\ SumReplicas(KSections(q)) = Capacity(src[q])

\* C9: after a load that fails the Project holds no partially valid model:
\* no kernel that breaks a validation rule, no more slots than the capacity,
\* and no mix of the failed load's file with the name or the capacity an
\* earlier load left.
C9_NoPartialModel ==
    \A p \in Projects :
        ret[p] \in Exits \cup {"raise", "notfound"} =>
            /\ \A i \in 1..Len(prj[p].kerns) : ValidKernel(prj[p].kerns[i])
            /\ Len(prj[p].slots) <= prj[p].shuffler_slots
            /\ ~ ( /\ prj[p].file = src[p].path
                   /\ prj[p].name # ""
                   /\ prj[p].name # src[p].name )

\* C9, for the load that returns to its caller: the file was not found
C9_NotFoundLeavesNoMix ==
    \A p \in Projects :
        ret[p] = "notfound" =>
            ~ ( /\ prj[p].file = src[p].path
                /\ prj[p].name # ""
                /\ prj[p].name # src[p].name )

\* C10: get_template returns a template directory that exists, the local one
\* when it exists and else the one of the repository, or "not found" (the
\* empty path).
C10_TemplateFound ==
    tmpl.called =>
        LET local == prj[tmpl.p].dir \o <<"templates", tmpl.name>>
            repo == prj[tmpl.p].repo \o <<"templates", tmpl.name>>
        IN  tmpl.result = (IF local \in fs THEN local
                           ELSE IF repo \in fs THEN repo
                           ELSE <<>>)

(***************************************************************************)
(* Properties of the macro expansion (SpecPreproc).                        *)
(***************************************************************************)
Pre == <<Lit("pre")>>
Post == <<Lit("post"), NL>>

\* the last call of preproc expanded the file  pre block post , with or
\* without the marker line
Expanded(block) ==
    /\ io.ret = "done"
    /\ io.before \in {Marked(block), Unmarked(block)}

\* the number of elements a loop over this value runs through
LoopCount(value) == IF value.ty = "int" THEN value.v ELSE Len(value.v)

\* the k-th copy of a body of plain text: the index reads k, and a copy of
\* more than one line is followed by an empty line
IndexedCopy(body, k) ==
    [j \in 1..Len(body) |->
        IF body[j] = Sub("_i") THEN Lit(ToString(k)) ELSE body[j]]
    \o (IF Count(body, NL) > 1 THEN <<NL>> ELSE <<>>)

IndexedCopies(body, count) ==
    Flatten([k \in 1..count |-> IndexedCopy(body, k - 1)])

\* C11: a loop block without a condition over a list of N elements, or over
\* the integer N, emits its body N times (nothing for N = 0), and the index
\* reads k in the k-th copy, k = 0..N-1.
C11_LoopEmitsEachIndex ==
    \A key \in {"L", "N"}, body \in PlainBodies :
        Expanded(Loop(key, body)) =>
            io.out = Pre \o IndexedCopies(body, LoopCount(ctx[key])) \o Post

C11_Witness ==
    /\ Expanded(Loop("L", <<Lit("x"), Sub("_i"), NL>>))
    /\ Len(ctx["L"].v) = 3
    /\ io.out = Pre \o <<Lit("x"), Lit("0"), NL, Lit("x"), Lit("1"), NL,
                          Lit("x"), Lit("2"), NL>> \o Post

\* C12: a loop block over boolean false emits nothing; over boolean true it
\* emits its body once, as written (no index is defined in it, and no
\* separator character is emitted).
C12_BooleanLoop ==
    \A body \in PlainBodies \cup SepBodies :
        /\ Expanded(Loop("F", body)) => io.out = Pre \o Post
        /\ Expanded(Loop("T", body)) => io.out = Pre \o body \o Post

C12_Witness ==
    /\ Expanded(Loop("T", <<Lit("x"), Sub("_i"), NL>>))
    /\ io.out = Pre \o <<Lit("x"), Sub("_i"), NL>> \o Post
    /\ io.wrote

C12_WitnessFalse ==
    /\ Expanded(Loop("F", <<Lit("x"), Sub("_i"), NL>>))
    /\ io.out = Pre \o Post
    /\ io.wrote

\* the loop over key with body, under condition c when c is one
LoopUnder(key, c, body) ==
    IF c = <<>> THEN Loop(key, body) ELSE LoopIf(key, c, body)

Max(a, b) == IF a >= b THEN a ELSE b

SepBody == <<Lit("x"), Sub("_i"), Sep(","), NL>>

\* the separator character appears once less often than the body was emitted
SeparatorsBetween(key, c) ==
    Expanded(LoopUnder(key, c, SepBody)) =>
        Count(io.out, Lit(",")) = Max(Count(io.out, Lit("x")) - 1, 0)

\* C13: in every loop block, with or without a condition, the separator
\* token of the body emits its character after every emitted iteration but
\* the last one: N-1 times for N >= 1 emitted iterations, never for N <= 1.
C13_SeparatorBetweenIterations ==
    \A key \in {"L", "N"}, c \in Conditions \cup {<<>>} :
        SeparatorsBetween(key, c)

\* the same for the loops without a condition only
C13_SeparatorUnconditioned ==
    \A key \in {"L", "N"} : SeparatorsBetween(key, <<>>)

\* the last call of preproc went through the file  pre block post  (it did
\* not return at the marker test), whether or not it came to an end
Processed(block) ==
    /\ io.ret \in {"done", "raise"}
    /\ io.before \in {Marked(block), Unmarked(block)}

UndefinedTests == {c \in Tests : c[1] = "U"}

\* C14: a conditional block whose key no frame defines is a failed
\* comparison: the block adds nothing to the output and the expansion of the
\* file goes on without an error.
C14_UndefinedKeyIsFalse ==
    \A c \in UndefinedTests, body \in IfBodies :
        Processed(IfBlock(c, body)) =>
            /\ io.ret = "done"
            /\ io.out = Pre \o Post

\* C15: a loop block whose key no frame defines emits nothing: the block is
\* removed from the output, delimiters included.
C15_UndefinedLoopEmitsNothing ==
    \A body \in Bodies :
        Processed(Loop("U", body)) =>
            /\ io.ret = "done"
            /\ io.out = Pre \o Post

\* count copies of a text one after the other
Repeat(data, count) == Flatten([k \in 1..count |-> data])

\* the token of an undefined key is in the output as it was written, on a
\* line of the file and on the line of a loop body
LeftVerbatim(tok) ==
    /\ Expanded(<<tok, NL>>) => io.out = Pre \o <<tok, NL>> \o Post
    /\ Expanded(Loop("L", <<tok, NL>>)) =>
            io.out = Pre \o Repeat(<<tok, NL>>, Len(ctx["L"].v)) \o Post

\* C16: a substitution token whose key no frame defines is left verbatim in
\* the output, with its format part if it has one, at the top level of a
\* file and inside a loop body.
C16_UndefinedTokenVerbatim ==
    /\ LeftVerbatim(Sub("U"))
    /\ LeftVerbatim(SubF("U", "[{}]"))

\* the same for the token without a format part only
C16_UndefinedPlainTokenVerbatim == LeftVerbatim(Sub("U"))

\* a text without any macro token
NoMacros(data) == \A i \in 1..Len(data) : data[i].t \in {"lit", "nl"}

\* the last call of preproc ran on text an earlier call had written
Rerun == io.rewrites >= 1

\* C18: the expansion is idempotent on resolved files: a call of preproc,
\* forced or not, on a file without macro tokens ends without an error and
\* leaves the file as it was (the text it computes is the text of the file);
\* a further call changes a file only where macro tokens were left in it.
C18_IdempotentOnResolved ==
    (io.runs > 0 /\ NoMacros(io.before)) =>
        /\ io.ret \in {"skipped", "done"}
        /\ io.ret = "done" => io.out = io.before
        /\ disk = io.before

C18_Witness ==
    /\ Rerun
    /\ NoMacros(io.before)
    /\ Count(io.before, Lit("2")) = 1
    /\ io.force /\ io.wrote
    /\ disk = io.before

\* on the files at hand a further call changes nothing at all
C18_RerunUnchanged ==
    Rerun => /\ io.ret \in {"skipped", "done"}
             /\ io.ret = "done" => io.out = io.before

\* C20: a file without the marker is never written by a call that is not
\* forced, whatever macros it holds, and a call in print mode writes no file.
C20_NoWriteWithoutMarker ==
    (/\ io.runs > 0
     /\ \/ Count(io.before, Marker) = 0 /\ ~io.force
        \/ io.mode = "print") =>
        /\ ~io.wrote
        /\ disk = io.before

C20_Witness ==
    /\ io.runs > 0
    /\ io.mode = "overwrite" /\ ~io.force
    /\ io.before = Unmarked(Loop("L", <<Lit("x"), Sub("_i"), NL>>))
    /\ Len(ctx["L"].v) = 3
    /\ io.ret = "skipped"
    /\ disk = io.before

C20_WitnessPrint ==
    /\ io.mode = "print" /\ io.printed
    /\ io.before = Marked(Loop("L", <<Lit("x"), Sub("_i"), NL>>))
    /\ io.out # io.before
    /\ disk = io.before

(***************************************************************************)
(* Properties of generate (SpecGenerate).                                  *)
(***************************************************************************)
\* the pass a callback belongs to
PassOf(op) ==
    CASE op = "precopy" -> 1
      [] op \in {"prefile", "predirectory"} -> 2
      [] OTHER -> 3

\* a name of the path holds a token the context has a value for
Renamable(path) ==
    \E n \in 1..Len(path) : new_name(path[n], ctx) # path[n]

\* the file carries the marker of the conditional subtree substitution
CopyMarked(path) == basename(path)[1].t = "copy"

\* C17: generate runs its three passes in a fixed order over the whole tree:
\* no callback of an earlier pass follows one of a later pass, once the
\* renaming has begun every file of the tree has had its callback of the
\* first pass, and a file is expanded under its final path, every name on it
\* renamed.
C17_PassesInOrder ==
    /\ \A i, j \in 1..Len(gen.log) :
            i < j => PassOf(gen.log[i].op) <= PassOf(gen.log[j].op)
    /\ gen.pass \in {"rename", "preproc", "done", "raised"} =>
            \A q \in DOMAIN gen.start :
                ~gen.start[q].dir =>
                    \E i \in 1..Len(gen.log) : gen.log[i] = Event("precopy", q)
    /\ \A i \in 1..Len(gen.log) :
            gen.log[i].op = "preproc" => ~Renamable(gen.log[i].path)

C17_Witness ==
    /\ gen.pass = "done"
    /\ \E i, j, k \in 1..Len(gen.log) :
            /\ i < j /\ j < k
            /\ gen.log[i] = Event("precopy", << <<CopyFor("K")>> >>)
            /\ gen.log[j] = Event("predirectory", << <<Sub("NAME"), Lit("_d")>> >>)
            /\ gen.log[k] = Event("preproc", << <<Lit("demo"), Lit("_d")>>,
                                                 <<Lit("b.c")>> >>)

\* the last callback was precopy on a file that carries the marker
LastPrecopy ==
    /\ gen.log # <<>>
    /\ gen.log[Len(gen.log)].op = "precopy"
    /\ CopyMarked(gen.log[Len(gen.log)].path)

LastPath == gen.log[Len(gen.log)].path

\* C19: in the first pass a file whose name carries the marker of a key the
\* context does not have is left untouched: after its callback it exists
\* with the same name and content.
C19_AbsentKeyUntouched ==
    (LastPrecopy /\ basename(LastPath)[1].k \notin DOMAIN ctx) =>
        /\ LastPath \in DOMAIN tree
        /\ tree = gen.prev

\* when the context has the key, the file is deleted and its directory
\* holds a copy or link of every file of every tree the key names
C19_PresentKeyReplaced ==
    (LastPrecopy /\ basename(LastPath)[1].k \in DOMAIN ctx) =>
        /\ LastPath \notin DOMAIN tree
        /\ \A s \in {"srcA", "srcB"} : \A n \in DOMAIN Sources[s] :
                /\ dirname(LastPath) \o <<n>> \in DOMAIN tree
                /\ tree[dirname(LastPath) \o <<n>>] =
                        Node(FALSE, Sources[s][n], gen.link)

(***************************************************************************)
(* Properties of the failures of the expansion.                            *)
(***************************************************************************)
\* the callback of the third walk was made on a file that cannot be read
UnreadAt(i) ==
    /\ gen.log[i].op = "preproc"
    /\ gen.log[i].path \in DOMAIN tree
    /\ read_raises(tree[gen.log[i].path].data)

\* C21: a file that cannot be read aborts the whole materialization: the
\* callback made on it is the last one generate makes and generate ends with
\* an error; no further file is processed after it.
C21_UnreadableAborts ==
    \A i \in 1..Len(gen.log) :
        UnreadAt(i) =>
            /\ i = Len(gen.log)
            /\ gen.pass = "raised"

\* the closing delimiter of an opening one
Closing(tok) == IF tok.t = "gen" THEN "endgen" ELSE "endif"

\* data holds a block that opens and has no closing delimiter of its kind and
\* depth after it
Unterminated(data) ==
    \E p \in 1..Len(data) :
        /\ data[p].t \in {"gen", "if"}
        /\ ~\E q \in (p + 1)..Len(data) :
                data[q].t = Closing(data[p]) /\ data[q].d = data[p].d

\* C22: the expansion of a file that holds an unterminated loop or
\* conditional block fails with an error, and no text with the unterminated
\* block still in it is written back.
C22_UnterminatedFails ==
    (io.runs > 0 /\ io.ret # "skipped" /\ Unterminated(io.before)) =>
        /\ io.ret = "raise"
        /\ ~io.wrote
        /\ ~Unterminated(disk)

(***************************************************************************)
(* Properties of loads that run at the same time (SpecLoads).              *)
(***************************************************************************)
\* the load of p has ended
Ended(p) == pc[p] = 0 /\ ret[p] # "none"

\* what the load of the file of p gives when it runs alone
Alone(p) == load(new_project(prj[p].repo), src[p], 0)

\* C23: the slot counter is scoped to one load: whatever steps of another
\* load come in between, a load ends as it ends alone, its slots carry the
\* ids 0..n-1, and its capacity check counts its own slots only.
C23_LoadsIndependent ==
    \A p \in Projects :
        Ended(p) =>
            /\ ret[p] = Alone(p).ret
            /\ ret[p] = "ok" =>
                  /\ \A j \in 1..Len(prj[p].slots) : prj[p].slots[j].id = j - 1
                  /\ prj[p].slots = Alone(p).prj.slots
                  /\ prj[p].kerns = Alone(p).prj.kerns

\* C23, for a load no other load runs beside: it ends as load tells
C23_AloneAsLoad ==
    \A p \in Projects :
        (Ended(p) /\ \A q \in Projects \ {p} : ret[q] = "none") =>
            /\ ret[p] = Alone(p).ret
            /\ prj[p] = Alone(p).prj
            /\ Slot_id = Alone(p).id

(***************************************************************************)
(* Properties of the order and the scopes of the expansion (SpecPreproc).  *)
(***************************************************************************)
\* the names of the first count elements of the list "L", one on each line
NameLines(count) == Flatten([j \in 1..count |-> <<Lit(Names[j]), NL>>])

\* the indexes 0..m-1 with ";" between them
IndexRow(m) ==
    Flatten([k \in 1..m |->
                <<Lit(ToString(k - 1))>> \o (IF k < m THEN <<Lit(";")>> ELSE <<>>)])

\* a loop over "L" whose body holds a loop over the count "M" of the element
NestedLoop ==
    Loop("L", <<Sub("n"), NL, GenFor(1, "M"), NL, Sub("_i"), Sep(";"),
                EndGen(1), NL>>)

\* C24: within one file the loop blocks are expanded first, an inner loop
\* before the body of the outer one is substituted, then the conditional
\* blocks, then the tokens of the text, and these against the dictionary
\* only: a token outside the loop that names a key of an iteration frame
\* ("n", "_i") stays as it is, while a key of the dictionary is replaced; a
\* loop inside a conditional block is expanded (and its condition evaluated)
\* whether the conditional holds or not, and is kept only when it holds; the
\* index inside an inner loop is the inner one.
C24_PassOrder ==
    /\ Expanded(AfterLoop) =>
            io.out = Pre \o NameLines(Len(ctx["L"].v))
                         \o <<Sub("n"), Sub("_i"), Lit("7"), NL>> \o Post
    /\ \A v \in {7, 8} :
            /\ Expanded(IfBlock(<<"X", "==", PyInt(v)>>, Loop("N", IndexBody))) =>
                    io.out = Pre \o (IF v = 7
                                     THEN IndexedCopies(IndexBody, ctx["N"].v)
                                     ELSE <<>>) \o Post
            /\ ( /\ Processed(IfBlock(<<"X", "==", PyInt(v)>>,
                                       LoopIf("N", <<"q", "==", PyInt(1)>>, IndexBody)))
                 /\ ctx["N"].v >= 1
               ) => io.ret = "raise"
    /\ Expanded(NestedLoop) =>
            io.out = Pre \o Flatten([j \in 1..Len(ctx["L"].v) |->
                                        <<Lit(Names[j]), NL>> \o IndexRow(j - 1)])
                         \o Post

C24_Witness ==
    /\ Expanded(AfterLoop)
    /\ Len(ctx["L"].v) = 3
    /\ io.out = Pre \o <<Lit("a"), NL, Lit("b"), NL, Lit("c"), NL,
                          Sub("n"), Sub("_i"), Lit("7"), NL>> \o Post

C24_WitnessLoopFirst ==
    /\ Processed(IfBlock(<<"X", "==", PyInt(8)>>,
                         LoopIf("N", <<"q", "==", PyInt(1)>>, IndexBody)))
    /\ ctx["N"].v = 2
    /\ io.ret = "raise"

NotB == <<"n", "!=", PyStr("b")>>

\* the positions (from 0) of the elements of "L" whose name is not "b"
Kept == {j \in 0..(Len(ctx["L"].v) - 1) : Names[j + 1] # "b"}

\* the copies of body for the positions of the set at and after position j,
\* each with its position as the index
RECURSIVE CopiesAt(_, _, _)
CopiesAt(body, j, positions) ==
    IF j >= Len(ctx["L"].v) THEN <<>>
    ELSE (IF j \in positions THEN IndexedCopy(body, j) ELSE <<>>)
         \o CopiesAt(body, j + 1, positions)

\* C25: in a loop over a list with a condition an element whose condition is
\* false adds nothing to the output, and an element whose condition is true
\* is expanded with the index equal to its position in the list.
C25_IndexIsPosition ==
    Expanded(LoopIf("L", NotB, IndexBody)) =>
        io.out = Pre \o CopiesAt(IndexBody, 0, Kept) \o Post

\* the first half of C25 alone: one copy for each element that passes the
\* condition, none for the others
C25_SuppressedEmitNothing ==
    Expanded(LoopIf("L", NotB, IndexBody)) =>
        /\ Count(io.out, Lit("x")) = Cardinality(Kept)
        /\ Len(io.out) = Len(Pre) + 3 * Cardinality(Kept) + Len(Post)

\* the copies the inner loop of InnerFrames makes for element j of "L": the
\* inner index, the name of the element, the X of the dictionary and the S
\* of the element, and one more line end after more than one line
InnerCopies(j) ==
    Flatten([k \in 1..(j - 1) |->
                <<Lit(ToString(k - 1)), Lit(Names[j]), Lit("7"), Lit("item"), NL>>])
    \o (IF j - 1 > 1 THEN <<NL>> ELSE <<>>)

\* C26: keys are looked up from the innermost frame outwards.  Inside an
\* inner loop the index is the inner one and a key the element and the
\* dictionary both have ("S") is the one of the element, while keys of
\* outer frames only ("n" of the element, "X" of the dictionary) are still
\* resolved; the key of an inner loop ("N", 1 in the element) is taken from
\* the element before the dictionary.
C26_InnermostFirst ==
    /\ Expanded(Loop("L", InnerFrames)) =>
            io.out = Pre \o Flatten([j \in 1..Len(ctx["L"].v) |-> InnerCopies(j)])
                         \o Post
    /\ Expanded(Loop("L", InnerKey)) =>
            io.out = Pre \o Repeat(<<Lit("0"), NL>>, Len(ctx["L"].v)) \o Post

C26_Witness ==
    /\ Expanded(Loop("L", InnerFrames))
    /\ Len(ctx["L"].v) = 3
    /\ io.out = Pre \o <<Lit("0"), Lit("b"), Lit("7"), Lit("item"), NL,
                          Lit("0"), Lit("c"), Lit("7"), Lit("item"), NL,
                          Lit("1"), Lit("c"), Lit("7"), Lit("item"), NL, NL>>
                     \o Post

C26_WitnessKey ==
    /\ Expanded(Loop("L", InnerKey))
    /\ ctx["N"].v = 3
    /\ io.out = Pre \o <<Lit("0"), NL, Lit("0"), NL, Lit("0"), NL>> \o Post

\* C27: a conditional block inside a loop body whose key only the elements
\* of the list define is compared with the value of each iteration: the
\* expansion ends without an error and the body is kept for the element
\* named "b" and for no other.
C27_ConditionalInLoopFrame ==
    Processed(Loop("L", FrameTest)) =>
        /\ io.ret = "done"
        /\ Count(io.out, Lit("b")) = (IF Len(ctx["L"].v) >= 2 THEN 1 ELSE 0)
        /\ Count(io.out, Lit("a")) = 0
        /\ Count(io.out, Lit("c")) = 0

\* the conditional block on a key of the dictionary inside a loop body is
\* evaluated: the body is kept in every iteration
C27_ConditionalOnRootKey ==
    Expanded(Loop("L", <<If(0, "X", "==", PyInt(7)), NL, Sub("n"), NL, EndIf(0), NL>>)) =>
        \A j \in 1..Len(ctx["L"].v) : Count(io.out, Lit(Names[j])) = 1

(***************************************************************************)
(* Properties of the loaded model: names and slots.                        *)
(***************************************************************************)
\* C28: in a loaded model the names of the kernels are pairwise distinct,
\* the padding kernel included.
C28_KernelNamesDistinct ==
    \A p \in Projects :
        ret[p] = "ok" =>
            \A i, j \in 1..Len(prj[p].kerns) :
                i # j => prj[p].kerns[i].name # prj[p].kerns[j].name

\* the number of slots the kernel sections before section i declare
SlotsBefore(p, i) == SumReplicas(SubSeq(KSections(p), 1, i - 1))

\* C29: after a successful load there are as many slots as the capacity
\* declared (3 when none is), each bound to exactly one kernel; the slots of
\* the declared kernels come first, in the order of their sections, and when
\* the capacity is larger the slots left are all bound to one padding kernel
\* of 4096 bytes, 2 banks and reset polarity "low".
C29_SlotsFillCapacity ==
    \A p \in Projects :
        ret[p] = "ok" =>
            LET n == Len(KSections(p))
                declared == SumReplicas(KSections(p))
                slots == prj[p].slots
            IN  /\ Len(slots) = Capacity(src[p])
                /\ \A j \in 1..Len(slots) : Len(slots[j].kerns) = 1
                /\ \A i \in 1..n :
                      \A j \in (SlotsBefore(p, i) + 1)..SlotsBefore(p, i + 1) :
                          slots[j].kerns = <<i>>
                /\ declared = Capacity(src[p]) => Len(prj[p].kerns) = n
                /\ declared < Capacity(src[p]) =>
                      /\ Len(prj[p].kerns) = n + 1
                      /\ prj[p].kerns[n + 1].membytes = 4096
                      /\ prj[p].kerns[n + 1].membanks = 2
                      /\ prj[p].kerns[n + 1].rstpol = "low"
                      /\ \A j \in (declared + 1)..Len(slots) :
                            slots[j].kerns = <<n + 1>>

C29_Witness ==
    \E p \in Projects :
        /\ ret[p] = "ok"
        /\ Capacity(src[p]) = 3
        /\ Len(KSections(p)) = 2
        /\ SumReplicas(KSections(p)) = 2
        /\ Len(prj[p].slots) = 3
        /\ prj[p].slots[2].kerns = <<2>>
        /\ prj[p].slots[3].kerns = <<3>>
        /\ prj[p].kerns[3].name = "dummy"

C29_WitnessFull ==
    \E p \in Projects :
        /\ ret[p] = "ok"
        /\ SumReplicas(KSections(p)) = 3
        /\ Len(prj[p].slots) = 3
        /\ Len(prj[p].kerns) = 2

(***************************************************************************)
(* Properties of the dictionary handed to preproc (SpecPreproc).           *)
(***************************************************************************)
\* the dictionary as it was handed to the first call: the one of Dictionaries
\* with the list "L" that ctx holds
Handed == Dictionary(Len(ctx["L"].v))

\* C30: the expansion leaves the dictionary as it was: after a call of
\* preproc that returned, the dictionary holds the keys and values it held
\* before, whatever macros the file contains.
C30_ContextUnchanged ==
    (io.runs > 0 /\ io.ret \in {"done", "skipped", "unread"}) =>
        /\ DOMAIN ctx = DOMAIN Handed
        /\ ctx = Handed

\* what does hold: every key handed in keeps its value, and the only key
\* added is "__builtins__"
C30_OnlyBuiltinsAdded ==
    /\ \A k \in DOMAIN Handed : k \in DOMAIN ctx /\ ctx[k] = Handed[k]
    /\ DOMAIN ctx \subseteq DOMAIN Handed \cup {"__builtins__"}
====
